---- MODULE Spec2Model ----
(***************************************************************************)
(* Model of streamlit_app.py: the NFHS rules assistant.                    *)
(*                                                                         *)
(* A Python str is a sequence of characters (one-character TLA+ strings);  *)
(* a literal of the script that is only ever compared or concatenated as a *)
(* whole (an identifier, a fixed message) is a one-element sequence.       *)
(* A Python value that may be None, a str, or missing is a record          *)
(* [kind, s].                                                              *)
(***************************************************************************)
EXTENDS Naturals, Sequences, FiniteSets

VARIABLES
    qp,            \* the page URL's "query" parameter, as st.query_params.get sees it
    debug_mode,    \* module-level debug_mode of the current script run
    cache,         \* st.cache_data store of cached_rule_lookup: set of [key, val]
    firstRaw,      \* history: per cache entry, the text typed when it was created
    calls,         \* history: network calls issued so far, per rule_id sent
    rule_input,    \* st.session_state["rule_input"], the text field
    rule_result,   \* st.session_state["rule_result"]
    qa_keys,       \* whether qa_thread_id/qa_last_prompt/qa_last_reply were set to ""
    run,           \* what the last script run did and rendered
    lookup,        \* the last direct invocation of ask_rule_lookup
    twin           \* the same invocation repeated under the current debug_mode

vars == <<qp, debug_mode, cache, firstRaw, calls, rule_input, rule_result,
          qa_keys, run, lookup, twin>>

---------------------------------------------------------------------------
(* Bounds *)

MaxPad == 1          \* spaces typed around a rule id, before and after together
MaxCalls == 2        \* network calls per rule id before the model stops counting
MaxQLen == 6         \* length of a query-parameter string
MaxQList == 2        \* length of a list-valued query parameter
MaxItems == 2        \* items of res.output
MaxBlocks == 1       \* blocks of one item's content

---------------------------------------------------------------------------
(* Python values *)

None == [kind |-> "None", s |-> <<>>]
Absent == [kind |-> "absent", s |-> <<>>]
Raised == [kind |-> "raised", s |-> <<>>]
Str(s) == [kind |-> "str", s |-> s]

\* bool(v) of a session-state value: None, "" and a missing key are falsy
Truthy(v) == v.kind = "str" /\ v.s # <<>>

Whitespace == {" ", "\t", "\n"}

RECURSIVE LStrip(_)
LStrip(s) ==
    IF s # <<>> /\ Head(s) \in Whitespace THEN LStrip(Tail(s)) ELSE s

RECURSIVE RStrip(_)
RStrip(s) ==
    IF s # <<>> /\ s[Len(s)] \in Whitespace
    THEN RStrip(SubSeq(s, 1, Len(s) - 1))
    ELSE s

\* str.strip()
Strip(s) == RStrip(LStrip(s))

---------------------------------------------------------------------------
(* Debug mode, lines 31-35 *)

DebugWord == <<"d", "e", "b", "u", "g">>

UpperOf(c) ==
    CASE c = "d" -> "D" [] c = "e" -> "E" [] c = "b" -> "B"
      [] c = "u" -> "U" [] c = "g" -> "G" [] OTHER -> c

LowerOf(c) ==
    CASE c = "D" -> "d" [] c = "E" -> "e" [] c = "B" -> "b"
      [] c = "U" -> "u" [] c = "G" -> "g" [] OTHER -> c

\* str.lower()
Lower(s) == [i \in 1..Len(s) |-> LowerOf(s[i])]

\* The characters a query string may hold at position i: the letter of
\* "debug" in either case, and past its end a space or another letter.
QChars(i) ==
    IF i <= Len(DebugWord) THEN {DebugWord[i], UpperOf(DebugWord[i])}
    ELSE {" ", "x"}

RECURSIVE QStringsOfLen(_)
QStringsOfLen(n) ==
    IF n = 0 THEN {<<>>}
    ELSE {Append(s, c) : s \in QStringsOfLen(n - 1), c \in QChars(n)}

QStrings == UNION {QStringsOfLen(n) : n \in 0..MaxQLen}

QAbsent == [kind |-> "absent", s |-> <<>>, items |-> <<>>]
QStr(s) == [kind |-> "str", s |-> s, items |-> <<>>]
QOther == [kind |-> "other", s |-> <<>>, items |-> <<>>]
QList(l) == [kind |-> "list", s |-> <<>>, items |-> l]

\* Elements of a list-valued parameter: strings, or a value that is no string
QElems == {QStr(DebugWord), QStr(DebugWord \o <<"x">>),
           QStr(<<"D", "e", "b", "U", "G">>), QOther}

QueryParams ==
    {QAbsent, QOther}
      \cup {QStr(s) : s \in QStrings}
      \cup {QList(l) : l \in UNION {[1..n -> QElems] : n \in 0..MaxQList}}

\* The queries the lookup and the UI specifications load the page with
SessionQueries == {QAbsent, QStr(<<"D", "e", "b", "U", "G">>)}

\* DebugMode comparing without lower-casing
DebugModeNoLower(q) ==
    LET v0 == IF q.kind = "absent" THEN QStr(<<>>) ELSE q
        v == IF v0.kind = "list"
             THEN (IF v0.items # <<>> THEN v0.items[1] ELSE QStr(<<>>))
             ELSE v0
    IN v.kind = "str" /\ v.s = DebugWord

\* _qp_val = st.query_params.get("query", ""); a list gives its first element
\* or ""; debug_mode = isinstance(_qp_val, str) and _qp_val.lower() == "debug"
DebugMode(q) ==
    LET v0 == IF q.kind = "absent" THEN QStr(<<>>) ELSE q
        v == IF v0.kind = "list"
             THEN (IF v0.items # <<>> THEN v0.items[1] ELSE QStr(<<>>))
             ELSE v0
    IN v.kind = "str" /\ Lower(v.s) = DebugWord

---------------------------------------------------------------------------
(* Configuration, lines 10-29 *)

RULE_VERSION == <<"65">>

CONFIG ==
    [RULE_PROMPT_ID |-> <<"pmpt_688eb6bb5d2c8195ae17efd5323009e0010626afbd178ad9">>,
     RULE_VECTOR_STORE_ID |-> <<"vs_689558cb487c819196565f82ed51220f">>,
     CASEBOOK_VECTOR_STORE_ID |-> <<"vs_689f72f117c8819195716f04bc2ae546">>]

\* [v for v in vector_ids if v and isinstance(v, str) and v.strip()]
KeepVectorId(v) == v # <<>> /\ Strip(v) # <<>>

\* VectorIds with the casebook store first
VectorIdsReversed ==
    SelectSeq(<<CONFIG.CASEBOOK_VECTOR_STORE_ID, CONFIG.RULE_VECTOR_STORE_ID>>,
              KeepVectorId)

\* vector_ids, lines 114-115
VectorIds ==
    SelectSeq(<<CONFIG.RULE_VECTOR_STORE_ID, CONFIG.CASEBOOK_VECTOR_STORE_ID>>,
              KeepVectorId)

\* The keyword arguments of client.responses.create, lines 117-124
Request(rule_id) ==
    [prompt |-> [id |-> CONFIG.RULE_PROMPT_ID, version |-> RULE_VERSION],
     input |-> <<[role |-> "user", content |-> <<"id:">> \o rule_id]>>,
     tools |-> <<[type |-> "file_search", vector_store_ids |-> VectorIds]>>,
     text |-> [format |-> [type |-> "text"]],
     max_output_tokens |-> 2048,
     store |-> TRUE]

---------------------------------------------------------------------------
(* What the API call can produce *)

\* The texts a response carries
Texts == {<<" ", "x", " ">>, <<"y">>}

\* A block of an item's content: no text attribute, a text attribute that is
\* no str (None, an object), or a text attribute that is a str
Blocks ==
    {[bkind |-> "absent", btext |-> <<>>], [bkind |-> "nostr", btext |-> <<>>]}
      \cup {[bkind |-> "str", btext |-> t] : t \in Texts}

BlockLists == UNION {[1..n -> Blocks] : n \in 0..MaxBlocks}

\* An item of res.output.
\*   tkind: "absent"  no text attribute
\*          "novalue" a text attribute without a value attribute
\*          "valnone" text.value is present and no str
\*          "val"     text.value is the str tval
\*   ckind: "absent"  no content attribute
\*          "none"    a content attribute that is not iterable (None)
\*          "list"    content is the list blocks
Items ==
    { [tkind |-> tk.k, tval |-> tk.v, ckind |-> ck.k, blocks |-> ck.b] :
        tk \in {[k |-> "absent", v |-> <<>>], [k |-> "novalue", v |-> <<>>],
                [k |-> "valnone", v |-> <<>>]}
                 \cup {[k |-> "val", v |-> t] : t \in Texts},
        ck \in {[k |-> "absent", b |-> <<>>], [k |-> "none", b |-> <<>>]}
                 \cup {[k |-> "list", b |-> bl] : bl \in BlockLists} }

\* res.output: a list of at most MaxItems items, or a value that is no list
Outputs ==
    {[kind |-> "none", items |-> <<>>]}
      \cup {[kind |-> "list", items |-> l] :
                l \in UNION {[1..m -> Items] : m \in 0..MaxItems}}

\* The outputs with no item or a single one
ShortOutputs ==
    {[kind |-> "none", items |-> <<>>], [kind |-> "list", items |-> <<>>]}
      \cup {[kind |-> "list", items |-> <<i>>] : i \in Items}

\* res.usage: "absent" no usage attribute; "none" usage is None; "plain" token
\* counts only; "details" token counts and input_tokens_details; "badcount"
\* token counts that are no numbers
Usages == {"absent", "none", "plain", "details", "badcount"}

RaisingCall == [raises |-> TRUE, usage |-> "absent",
                output |-> [kind |-> "none", items |-> <<>>]]

\* client.responses.create raises, or returns res
Outcomes ==
    {RaisingCall}
      \cup {[raises |-> FALSE, usage |-> u, output |-> o] : u \in Usages, o \in ShortOutputs}

---------------------------------------------------------------------------
(* ask_rule_lookup, lines 112-164 *)

\* Lines 126-149: the st.write lines written, and whether the block raised.
Diagnostics(debug, usage) ==
    IF ~debug \/ usage = "absent" THEN [writes |-> 0, raised |-> FALSE]
    ELSE CASE usage = "none" -> [writes |-> 1, raised |-> TRUE]
           [] usage = "plain" -> [writes |-> 4, raised |-> FALSE]
           [] usage = "details" -> [writes |-> 6, raised |-> FALSE]
           [] usage = "badcount" -> [writes |-> 3, raised |-> TRUE]

\* Lines 156-158: the first block with a text attribute decides
RECURSIVE FirstBlockText(_)
FirstBlockText(blocks) ==
    IF blocks = <<>> THEN Absent
    ELSE CASE Head(blocks).bkind = "str" -> Str(Strip(Head(blocks).btext))
           [] Head(blocks).bkind = "nostr" -> Raised
           [] OTHER -> FirstBlockText(Tail(blocks))

\* Lines 153-158 for one item: a str returned, Raised, or Absent (next item)
ItemText(out) ==
    CASE out.tkind = "val" -> Str(Strip(out.tval))
      [] out.tkind = "valnone" -> Raised
      [] out.ckind = "none" -> Raised
      [] out.ckind = "list" -> FirstBlockText(out.blocks)
      [] OTHER -> Absent

\* f"No written response was generated for rule '{rule_id}'." (the script
\* quotes the rule id with backquotes and opens with a warning sign)
FallbackText(rule_id) ==
    <<"No written response was generated for rule '">> \o rule_id \o <<"'.">>

RECURSIVE ExtractItems(_, _)
ExtractItems(items, rule_id) ==
    IF items = <<>> THEN Str(FallbackText(rule_id))
    ELSE LET r == ItemText(Head(items))
         IN IF r.kind = "absent" THEN ExtractItems(Tail(items), rule_id) ELSE r

\* Lines 151-160: for out in res.output ... return fallback
ExtractText(output, rule_id) ==
    IF output.kind = "none" THEN Raised ELSE ExtractItems(output.items, rule_id)

\* The try body, lines 114-160: the value returned or Raised, the st.write
\* lines written, and the requests sent.
TryBody(rule_id, debug, outcome) ==
    LET sent == <<Request(rule_id)>>
        diag == Diagnostics(debug, outcome.usage)
    IN IF outcome.raises
       THEN [val |-> Raised, writes |-> 0, requests |-> sent]
       ELSE IF diag.raised
            THEN [val |-> Raised, writes |-> diag.writes, requests |-> sent]
            ELSE [val |-> ExtractText(outcome.output, rule_id),
                  writes |-> diag.writes, requests |-> sent]

\* AskRuleLookup with the try around the API call alone. ret is the value
\* returned, or Raised when an exception leaves the function.
AskRuleLookupGuardsCallOnly(rule_id, debug, outcome) ==
    LET b == TryBody(rule_id, debug, outcome)
    IN IF outcome.raises
       THEN [ret |-> None, errors |-> 1, writes |-> b.writes, requests |-> b.requests]
       ELSE [ret |-> b.val, errors |-> 0, writes |-> b.writes, requests |-> b.requests]

\* try: ... except Exception as e: st.error(...); return None
AskRuleLookup(rule_id, debug, outcome) ==
    LET b == TryBody(rule_id, debug, outcome)
    IN IF b.val.kind = "raised"
       THEN [ret |-> None, errors |-> 1, writes |-> b.writes, requests |-> b.requests]
       ELSE [ret |-> b.val, errors |-> 0, writes |-> b.writes, requests |-> b.requests]

---------------------------------------------------------------------------
(* The cache wrapper and the rule lookup UI, lines 166-203 *)

\* The rule ids typed into the text field, without surrounding spaces
RuleIds == {<<"8">>, <<"a", " ", "b">>}

Spaces(n) == [i \in 1..n |-> " "]

\* What the user types: nothing, spaces only, or a rule id between spaces
RawInputs ==
    {Spaces(lr[1]) \o core \o Spaces(lr[2]) :
        lr \in {p \in (0..MaxPad) \X (0..MaxPad) : p[1] + p[2] <= MaxPad},
        core \in RuleIds \cup {<<>>}}

\* The responses the API gives in the UI specification
UiOutcomes ==
    {RaisingCall,
     [raises |-> FALSE, usage |-> "none",
      output |-> [kind |-> "list",
                  items |-> <<[tkind |-> "val", tval |-> <<" ", "x", " ">>,
                               ckind |-> "absent", blocks |-> <<>>]>>]],
     [raises |-> FALSE, usage |-> "plain", output |-> [kind |-> "list", items |-> <<>>]]}

HasEntry(store, rule_id) == \E e \in store : e.key = rule_id

EntryVal(store, rule_id) == (CHOOSE e \in store : e.key = rule_id).val

\* CachedRuleLookup that runs the function on every call
CachedRuleLookupNoMemo(store, rule_id, debug, outcome) ==
    LET r == AskRuleLookup(rule_id, debug, outcome)
    IN [ret |-> r.ret, store |-> store \cup {[key |-> rule_id, val |-> r.ret]},
        requests |-> r.requests]

\* CachedRuleLookup that treats a stored None as no entry
CachedRuleLookupRetriesNone(store, rule_id, debug, outcome) ==
    IF HasEntry(store, rule_id) /\ EntryVal(store, rule_id) # None
    THEN [ret |-> EntryVal(store, rule_id), store |-> store, requests |-> <<>>]
    ELSE LET r == AskRuleLookup(rule_id, debug, outcome)
         IN [ret |-> r.ret,
             store |-> {e \in store : e.key # rule_id}
                         \cup {[key |-> rule_id, val |-> r.ret]},
             requests |-> r.requests]

\* @st.cache_data(show_spinner=False) over ask_rule_lookup: a stored value is
\* returned without running the function; otherwise the function runs and its
\* return value, None included, is stored under the argument. An exception is
\* not stored. (The framework also replays the elements the function drew;
\* the replay is not part of the state here.)
CachedRuleLookup(store, rule_id, debug, outcome) ==
    IF HasEntry(store, rule_id)
    THEN [ret |-> EntryVal(store, rule_id), store |-> store, requests |-> <<>>]
    ELSE LET r == AskRuleLookup(rule_id, debug, outcome)
         IN [ret |-> r.ret,
             store |-> IF r.ret.kind = "raised" THEN store
                       ELSE store \cup {[key |-> rule_id, val |-> r.ret]},
             requests |-> r.requests]

\* IsBlankInput without the strip
IsBlankInputNoStrip(s) == s = <<>>

\* not rule_input.strip(), line 195
IsBlankInput(s) == Strip(s) = <<>>

\* LookupKey without the strip
LookupKeyRaw(s) == s

\* The argument of cached_rule_lookup, line 196
LookupKey(s) == Strip(s)

NoResponseText == <<"No response.">>

\* Lines 201-203: the Rule Lookup Result section, Absent when it is not drawn
RenderedSection(rr) ==
    IF Truthy(rr) THEN (IF Truthy(rr) THEN rr ELSE Str(NoResponseText)) ELSE Absent

\* Lines 188-190
QaKeysAfter(input, keys) == IF input # <<>> THEN "empty" ELSE keys

NoLookup ==
    [done |-> FALSE, rule_id |-> <<>>, debug |-> FALSE, outcome |-> RaisingCall,
     ret |-> Absent, errors |-> 0, writes |-> 0, requests |-> <<>>]

---------------------------------------------------------------------------
(* State machine *)

Init ==
    /\ qp = QAbsent
    /\ debug_mode = DebugMode(QAbsent)
    /\ cache = {}
    /\ firstRaw = {}
    /\ calls = [k \in RawInputs |-> 0]
    /\ rule_input = <<>>
    /\ rule_result = Absent
    /\ qa_keys = "unset"
    /\ run = [event |-> "load", warning |-> FALSE, section |-> Absent, netcalls |-> 0]
    /\ lookup = NoLookup
    /\ twin = NoLookup

\* A browser opens the page with query parameter q: a new session runs the
\* script top to bottom with an empty text field and no button pressed. The
\* cache belongs to the process and is kept.
LoadPage(q) ==
    /\ qp' = q
    /\ debug_mode' = DebugMode(q)
    /\ rule_input' = <<>>
    /\ rule_result' = Absent
    /\ qa_keys' = QaKeysAfter(<<>>, "unset")
    /\ run' = [event |-> "load", warning |-> FALSE,
               section |-> RenderedSection(Absent), netcalls |-> 0]
    /\ UNCHANGED <<cache, firstRaw, calls, lookup, twin>>

\* The user changes the text field to s and leaves it: the script reruns with
\* the button not pressed.
TypeInput(s) ==
    /\ rule_input' = s
    /\ qa_keys' = QaKeysAfter(s, qa_keys)
    /\ run' = [event |-> "type", warning |-> FALSE,
               section |-> RenderedSection(rule_result), netcalls |-> 0]
    /\ UNCHANGED <<qp, debug_mode, cache, firstRaw, calls, rule_result, lookup, twin>>

\* The user presses Look Up with s in the text field; the API, if called,
\* answers with outcome. Lines 187-203.
Press(s, outcome) ==
    /\ rule_input' = s
    /\ qa_keys' = QaKeysAfter(s, qa_keys)
    /\ IF ~IsBlankInput(s)
       THEN LET key == LookupKey(s)
                r == CachedRuleLookup(cache, key, debug_mode, outcome)
            IN /\ r.requests # <<>> => calls[key] < MaxCalls
               /\ cache' = r.store
               /\ calls' = [calls EXCEPT ![key] = @ + Len(r.requests)]
               /\ rule_result' = r.ret
               /\ run' = [event |-> "press", warning |-> FALSE,
                          section |-> RenderedSection(r.ret),
                          netcalls |-> Len(r.requests)]
       ELSE /\ UNCHANGED <<cache, calls, rule_result>>
            /\ run' = [event |-> "press", warning |-> TRUE,
                       section |-> RenderedSection(rule_result), netcalls |-> 0]
    /\ UNCHANGED <<qp, debug_mode, lookup, twin>>

PressLookUp(s, outcome) == Press(s, outcome) /\ UNCHANGED firstRaw

Next ==
    \/ \E q \in SessionQueries : LoadPage(q)
    \/ \E s \in RawInputs : TypeInput(s)
    \/ \E s \in RawInputs, outcome \in UiOutcomes : PressLookUp(s, outcome)

Spec == Init /\ [][Next]_vars

---------------------------------------------------------------------------
(* One session of the UI, with the history of which typed text made the    *)
(* network call behind each cache entry                                     *)

PressLookUpTracked(s, outcome) ==
    /\ Press(s, outcome)
    /\ firstRaw' = IF run'.netcalls > 0 /\ ~HasEntry(firstRaw, LookupKey(s))
                   THEN firstRaw \cup {[key |-> LookupKey(s), raw |-> s]}
                   ELSE firstRaw

NextRaw ==
    \/ \E s \in RawInputs : TypeInput(s)
    \/ \E s \in RawInputs, outcome \in UiOutcomes : PressLookUpTracked(s, outcome)

SpecRaw == Init /\ [][NextRaw]_vars

---------------------------------------------------------------------------
(* The debug flag alone *)

NextQuery == \E q \in QueryParams : LoadPage(q)

SpecQuery == Init /\ [][NextQuery]_vars

---------------------------------------------------------------------------
(* One invocation of ask_rule_lookup, and its repetition under the other    *)
(* debug mode                                                               *)

Invocation(rule_id, debug, outcome) ==
    LET r == AskRuleLookup(rule_id, debug, outcome)
    IN [done |-> TRUE, rule_id |-> rule_id, debug |-> debug, outcome |-> outcome,
        ret |-> r.ret, errors |-> r.errors, writes |-> r.writes,
        requests |-> r.requests]

\* ask_rule_lookup(rule_id) is called and the API answers with outcome
Invoke(rule_id, outcome) ==
    /\ ~lookup.done
    /\ lookup' = Invocation(rule_id, debug_mode, outcome)
    /\ twin' = NoLookup
    /\ UNCHANGED <<qp, debug_mode, cache, firstRaw, calls, rule_input, rule_result,
                   qa_keys, run>>

\* The same rule_id is looked up again and the API gives the same answer
Reinvoke ==
    /\ lookup.done
    /\ twin' = Invocation(lookup.rule_id, debug_mode, lookup.outcome)
    /\ UNCHANGED <<qp, debug_mode, cache, firstRaw, calls, rule_input, rule_result,
                   qa_keys, run, lookup>>

\* The caller is done with the result
Forget ==
    /\ lookup.done
    /\ lookup' = NoLookup
    /\ twin' = NoLookup
    /\ UNCHANGED <<qp, debug_mode, cache, firstRaw, calls, rule_input, rule_result,
                   qa_keys, run>>

NextLookup ==
    \/ \E q \in SessionQueries : LoadPage(q)
    \/ \E rule_id \in RuleIds, outcome \in Outcomes :
          Invoke(rule_id, outcome)
    \/ Reinvoke
    \/ Forget

SpecLookup == Init /\ [][NextLookup]_vars

---------------------------------------------------------------------------
(* The text extraction over every response shape *)

NextExtract ==
    \/ \E rule_id \in RuleIds, output \in Outputs :
          Invoke(rule_id, [raises |-> FALSE, usage |-> "absent", output |-> output])
    \/ Forget

SpecExtract == Init /\ [][NextExtract]_vars

---------------------------------------------------------------------------
(* Properties *)

\* s is "debug" in some mix of upper and lower case
IsDebugText(s) ==
    /\ Len(s) = Len(DebugWord)
    /\ \A i \in 1..Len(s) : s[i] \in {DebugWord[i], UpperOf(DebugWord[i])}

\* C8: debug_mode is true exactly when the query parameter, or the first
\* element of a list-valued one, is a string equal to "debug" up to case; it
\* is false when the parameter is absent, an empty list, no string, or any
\* other string.
C8_DebugFlag ==
    debug_mode <=>
        \/ qp.kind = "str" /\ IsDebugText(qp.s)
        \/ /\ qp.kind = "list"
           /\ qp.items # <<>>
           /\ qp.items[1].kind = "str"
           /\ IsDebugText(qp.items[1].s)

\* A list-valued parameter whose first element is "debug" in mixed case
C8_Witness ==
    /\ debug_mode
    /\ qp.kind = "list"
    /\ Len(qp.items) > 1
    /\ qp.items[1].s # DebugWord

\* C9: an invocation of ask_rule_lookup sends at most one request, and a
\* request carries the configured prompt id with RULE_VERSION, one user
\* message built from rule_id, and one file_search tool naming the rule store
\* and then the casebook store.
C9_RequestShape ==
    lookup.done =>
        /\ Len(lookup.requests) <= 1
        /\ \A i \in 1..Len(lookup.requests) :
              LET req == lookup.requests[i]
              IN /\ req.prompt = [id |-> CONFIG.RULE_PROMPT_ID, version |-> <<"65">>]
                 /\ Len(req.input) = 1
                 /\ req.input[1].role = "user"
                 /\ req.input[1].content = <<"id:">> \o lookup.rule_id
                 /\ Len(req.tools) = 1
                 /\ req.tools[1].type = "file_search"
                 /\ req.tools[1].vector_store_ids =
                        <<CONFIG.RULE_VECTOR_STORE_ID, CONFIG.CASEBOOK_VECTOR_STORE_ID>>

\* An invocation whose call was answered
C9_Witness ==
    /\ lookup.done
    /\ ~lookup.outcome.raises
    /\ Len(lookup.requests) = 1
    /\ lookup.ret.kind = "str"

\* The invocation inv failed: the call raised, the diagnostics raised, or the
\* extraction raised
LookupFailed(inv) ==
    \/ inv.outcome.raises
    \/ inv.debug /\ inv.outcome.usage \in {"none", "badcount"}
    \/ ExtractText(inv.outcome.output, inv.rule_id).kind = "raised"

\* C1: whichever way the lookup fails, ask_rule_lookup returns None with
\* exactly one error message, and no exception leaves it.
C1_FailuresCaught ==
    lookup.done =>
        /\ lookup.ret.kind # "raised"
        /\ LookupFailed(lookup) => lookup.ret = None /\ lookup.errors = 1

\* A failure after the call returned: diagnostics were written, then res.output
\* could not be iterated
C1_Witness ==
    /\ lookup.done
    /\ ~lookup.outcome.raises
    /\ lookup.debug
    /\ lookup.writes > 0
    /\ lookup.outcome.output.kind = "none"
    /\ lookup.ret = None

\* The text field the claim C2 takes from one item: the item's text.value, or
\* else the text of the first block of its content that has one. kind is
\* "absent" when the item exposes neither, "str" with the stripped text when
\* the field holds a str, "nostr" when the field holds something else.
RECURSIVE ClaimedBlockField(_)
ClaimedBlockField(blocks) ==
    IF blocks = <<>> THEN Absent
    ELSE CASE Head(blocks).bkind = "str" -> Str(Strip(Head(blocks).btext))
           [] Head(blocks).bkind = "nostr" -> [kind |-> "nostr", s |-> <<>>]
           [] OTHER -> ClaimedBlockField(Tail(blocks))

ClaimedItemField(item) ==
    CASE item.tkind = "val" -> Str(Strip(item.tval))
      [] item.tkind = "valnone" -> [kind |-> "nostr", s |-> <<>>]
      [] item.ckind = "list" -> ClaimedBlockField(item.blocks)
      [] OTHER -> Absent

\* The indexes of the items that expose a text field
Exposing(items) == {i \in 1..Len(items) : ClaimedItemField(items[i]).kind # "absent"}

FirstOf(S) == CHOOSE i \in S : \A j \in S : i <= j

\* C2: over a list-valued output the extraction returns the stripped text of
\* the first text field in list order, skipping the items that expose none,
\* and the fallback naming the rule id exactly when no item exposes one.
C2_FirstTextOrFallback ==
    (lookup.done /\ lookup.outcome.output.kind = "list") =>
        LET items == lookup.outcome.output.items
        IN /\ Exposing(items) = {} <=> lookup.ret = Str(FallbackText(lookup.rule_id))
           /\ Exposing(items) # {} =>
                 lookup.ret = ClaimedItemField(items[FirstOf(Exposing(items))])

\* Every text field of items holds a str and every content is a list
WellTyped(items) ==
    \A i \in 1..Len(items) :
        /\ items[i].tkind # "valnone"
        /\ items[i].ckind # "none"
        /\ \A j \in 1..Len(items[i].blocks) : items[i].blocks[j].bkind # "nostr"

\* The statement of C2 over the well-typed outputs only, where it holds
C2_WellTypedOnly ==
    (lookup.done /\ lookup.outcome.output.kind = "list"
       /\ WellTyped(lookup.outcome.output.items)) => C2_FirstTextOrFallback

\* C4: the same rule_id and the same API answer give the same return value
\* with and without debug mode, and only the debug run writes usage lines.
C4_DebugIndependent ==
    (lookup.done /\ twin.done /\ lookup.debug # twin.debug) =>
        /\ lookup.ret = twin.ret
        /\ ~lookup.debug => lookup.writes = 0
        /\ ~twin.debug => twin.writes = 0

\* C3: a rule id is sent to the API at most once; its first lookup makes the
\* call, and every later lookup returns the stored value without a call.
C3_OneCallPerString ==
    /\ [](\A k \in RawInputs : calls[k] <= 1)
    /\ [][(run'.event = "press" /\ Strip(rule_input') # <<>>) =>
            LET k == Strip(rule_input')
            IN IF HasEntry(cache, k)
               THEN calls' = calls /\ rule_result' = EntryVal(cache, k)
               ELSE calls'[k] = 1 /\ run'.netcalls = 1]_vars

\* A lookup answered from the cache
C3_Witness ==
    /\ run.event = "press"
    /\ ~run.warning
    /\ run.netcalls = 0
    /\ rule_result.kind = "str"
    /\ calls[Strip(rule_input)] = 1

\* C7: a key has at most one cached value; an entry, the None of a failed
\* lookup included, is never removed or changed, and a key that has an entry
\* is never sent to the API again.
C7_CacheStable ==
    /\ [](\A e1, e2 \in cache : e1.key = e2.key => e1 = e2)
    /\ [][/\ cache \subseteq cache'
          /\ \A e \in cache : calls'[e.key] = calls[e.key]]_vars

\* A failed lookup answered from the cache
C7_Witness ==
    /\ run.event = "press"
    /\ ~run.warning
    /\ run.netcalls = 0
    /\ rule_result = None
    /\ [key |-> Strip(rule_input), val |-> None] \in cache

\* C10: a press with blank input changes neither the cache, the calls nor
\* rule_result, keeps the result section as it was and shows the warning; a
\* press with other input stores the lookup's return value in rule_result.
C10_BlankPressFrame ==
    [][run'.event = "press" =>
         IF Strip(rule_input') = <<>>
         THEN /\ cache' = cache
              /\ calls' = calls
              /\ rule_result' = rule_result
              /\ run'.section = run.section
              /\ run'.warning
              /\ run'.netcalls = 0
         ELSE /\ ~run'.warning
              /\ HasEntry(cache', Strip(rule_input'))
              /\ rule_result' = EntryVal(cache', Strip(rule_input'))]_vars

\* A blank press while an earlier result is displayed
C10_Witness ==
    /\ run.event = "press"
    /\ run.warning
    /\ rule_input # <<>>
    /\ Truthy(rule_result)
    /\ run.section = rule_result

\* C5: after a failed lookup the Rule Lookup Result section shows the
\* no-response message.
C5_FallbackShown ==
    (run.event = "press" /\ ~run.warning /\ rule_result = None) =>
        run.section = Str(NoResponseText)

\* C6 as claimed: a press is answered from the cache only if the very same
\* text, character for character, was typed for the lookup that made the call.
C6_RawKeyed ==
    [][(run'.event = "press" /\ Strip(rule_input') # <<>> /\ run'.netcalls = 0) =>
          \E f \in firstRaw : f.raw = rule_input']_vars

\* C6 as amended: a press is answered from the cache exactly when the typed
\* text, stripped, equals the stripped text of a lookup that made the call.
C6_StrippedKeyed ==
    [][(run'.event = "press" /\ Strip(rule_input') # <<>>) =>
          (run'.netcalls = 0 <=>
              \E f \in firstRaw : Strip(f.raw) = Strip(rule_input'))]_vars

\* A press answered from an entry made by a differently typed text
C6_Witness ==
    /\ run.event = "press"
    /\ run.netcalls = 0
    /\ \E f \in firstRaw : f.raw # rule_input /\ Strip(f.raw) = Strip(rule_input)

====
